---- MODULE Spec2Model ----
(***************************************************************************)
(* The OpenPLC compiler service (app/main.py): four POST handlers that     *)
(* validate a JSON body, create a temporary directory, write the input     *)
(* files, run an external tool in it, harvest the tool's output files,     *)
(* and remove the directory in a finally block.                            *)
(*                                                                         *)
(* A text is a sequence of characters.  The file system is a map from      *)
(* directory names to directories; a directory is a map from file names    *)
(* to entries.  Each handler invocation is a process whose position is pc. *)
(***************************************************************************)
EXTENDS Integers, Sequences, FiniteSets, TLC

\* ------------------------------------------------------------------ bounds
\* Directory names tempfile.mkdtemp can draw from.
NumDirs == 2
\* The tool's exit status ranges over 0..MaxExit.
MaxExit == 1

\* Invocations that may overlap in time.
Requests == {1, 2}
DirNames == 1..NumDirs
ExitCodes == 0..MaxExit

\* ------------------------------------------------------------------- texts
Whitespace == {" ", "\n", "\r", "\t"}
\* A byte sequence that is not valid in the locale's encoding.
BadByte == "\\xff"
\* What the "replace" error handler decodes an invalid byte to.
ReplacementChar == "\\ufffd"
\* A lone surrogate: json.loads accepts "\ud800", no encoder can write it.
Surrogate == "\\ud800"

EmptyText == << >>
BlankText == <<" ", "\n">>
\* A text with a Windows line ending inside and blanks around.
PaddedText == <<" ", "x", "\r", "\n", "y", " ">>
LoneText == <<"x", Surrogate>>
\* What the tool writes to a file it produces, well-formed or not.
ToolText == <<"o">>
ToolGarbled == <<"o", BadByte>>

RECURSIVE LStrip(_)
LStrip(s) ==
    IF s # << >> /\ Head(s) \in Whitespace THEN LStrip(Tail(s)) ELSE s

RECURSIVE RStrip(_)
RStrip(s) ==
    IF s # << >> /\ s[Len(s)] \in Whitespace
    THEN RStrip(SubSeq(s, 1, Len(s) - 1))
    ELSE s

\* str.strip()
Strip(s) == RStrip(LStrip(s))

\* os.linesep of the platform the service runs on.
LineSep == <<"\n">>

\* f.write(text) on a file opened with open(path, "w"): newline=None turns
\* every "\n" into os.linesep and leaves "\r" alone.
RECURSIVE TextWrite(_)
TextWrite(s) ==
    IF s = << >> THEN << >>
    ELSE (IF Head(s) = "\n" THEN LineSep ELSE <<Head(s)>>) \o TextWrite(Tail(s))

\* f.read() on a file opened with open(path, "r"), and the streams of
\* subprocess.run(text=True): newline=None turns "\r\n" and "\r" into "\n".
RECURSIVE UniversalNewlines(_)
UniversalNewlines(s) ==
    IF s = << >> THEN << >>
    ELSE IF Head(s) = "\r"
         THEN IF Len(s) > 1 /\ s[2] = "\n"
              THEN <<"\n">> \o UniversalNewlines(Tail(Tail(s)))
              ELSE <<"\n">> \o UniversalNewlines(Tail(s))
         ELSE <<Head(s)>> \o UniversalNewlines(Tail(s))

\* Writing a text to a file opened in text mode encodes it.
Encodable(s) == \A i \in 1..Len(s) : s[i] # Surrogate

\* Reading with the default (strict) error handler decodes the bytes.
Decodable(s) == \A i \in 1..Len(s) : s[i] # BadByte

\* Reading with errors="replace".
DecodeReplace(s) ==
    [i \in 1..Len(s) |-> IF s[i] = BadByte THEN ReplacementChar ELSE s[i]]

\* ------------------------------------------------------------ JSON bodies
JNull == [type |-> "null", val |-> << >>]
JNumber == [type |-> "number", val |-> <<"4", "2">>]
JString(s) == [type |-> "string", val |-> s]

FieldNames == {"plc_xml", "program_st", "variables_csv", "located_variables_h"}
FieldValues ==
    {JNull, JNumber} \cup
    {JString(s) : s \in {EmptyText, BlankText, PaddedText, LoneText}}

Endpoints == {"generate-st", "compile-st", "generate-debug", "generate-gluevars"}

\* The fields each handler reads with data.get, in the order it checks them.
RequiredFields(e) ==
    CASE e = "generate-st" -> <<"plc_xml">>
      [] e = "compile-st" -> <<"program_st">>
      [] e = "generate-debug" -> <<"program_st", "variables_csv">>
      [] e = "generate-gluevars" -> <<"located_variables_h">>

\* generate_gluevars checks isinstance only; the others also check strip().
RejectsBlank(e) == e # "generate-gluevars"

Range(s) == {s[i] : i \in 1..Len(s)}

\* A body is not JSON at all, a JSON value that is no object, or an object.
NoFields == [f \in FieldNames |-> JNull]
InvalidBody == [type |-> "invalid", fields |-> NoFields]
ArrayBody == [type |-> "array", fields |-> NoFields]
ObjectBodies(e) ==
    {[type |-> "object", fields |-> fs] :
        fs \in {g \in [FieldNames -> FieldValues] :
                  \A f \in FieldNames \ Range(RequiredFields(e)) : g[f] = JNull}}
Bodies(e) == {InvalidBody, ArrayBody} \cup ObjectBodies(e)

\* dict.get: a missing key and a null value both give None.
Get(body, f) == body.fields[f]

\* --------------------------------------------------------------- responses
\* sources is not part of the JSON: it records whose files the content of
\* the response was read from.
NoFiles == << >>
NoResponse ==
    [status |-> 0, detail |-> "", exit_code |-> -1, stdout |-> << >>,
     stderr |-> << >>, named |-> NoFiles, files |-> NoFiles, sources |-> {}]

\* raise HTTPException(status_code, detail)
HTTPError(code, detail) ==
    [NoResponse EXCEPT !.status = code, !.detail = detail]

\* An exception that is no HTTPException leaves the handler: the framework
\* answers 500.
InternalError == [NoResponse EXCEPT !.status = 500, !.detail = "Internal Server Error"]

Accepted == [NoResponse EXCEPT !.status = 100]

FieldOKNoStrip(e, v) == v.type = "string"
\* if not isinstance(text, str) or not text.strip(): raise HTTPException(422)
FieldOK(e, v) ==
    /\ v.type = "string"
    /\ RejectsBlank(e) => Strip(v.val) # << >>

RECURSIVE CheckFields(_, _, _)
CheckFields(e, body, fs) ==
    IF fs = << >> THEN Accepted
    ELSE IF ~FieldOK(e, Get(body, Head(fs)))
         THEN HTTPError(422, Head(fs))
         ELSE CheckFields(e, body, Tail(fs))

\* Lines 41-49 (and their copies): parse the body, read and check the fields.
Validate(e, body) ==
    IF body.type = "invalid"
    THEN HTTPError(400, "Request body must be valid JSON.")
    ELSE IF body.type # "object"
         THEN InternalError    \* data.get on a list: AttributeError
         ELSE CheckFields(e, body, RequiredFields(e))

\* ------------------------------------------------------------- file system
FileNames ==
    {"plc.xml", "program.st", "VARIABLES.csv", "debug.c",
     "LOCATED_VARIABLES.h", "glueVars.c", "POUS.c", "lib"}

\* by: the invocation whose handler or tool wrote the entry (0: nobody).
Absent == [kind |-> "none", data |-> << >>, readable |-> TRUE, by |-> 0]
File(data, readable, r) ==
    [kind |-> "file", data |-> data, readable |-> readable, by |-> r]
SubDir(r) == [kind |-> "dir", data |-> << >>, readable |-> TRUE, by |-> r]

EmptyDir == [f \in FileNames |-> Absent]
NoDir == [exists |-> FALSE, by |-> 0, files |-> EmptyDir]
NewDir(r) == [exists |-> TRUE, by |-> r, files |-> EmptyDir]

\* The input files each handler writes, in order: <<file name, body field>>.
InputFiles(e) ==
    CASE e = "generate-st" -> << <<"plc.xml", "plc_xml">> >>
      [] e = "compile-st" -> << <<"program.st", "program_st">> >>
      [] e = "generate-debug" ->
            << <<"program.st", "program_st">>, <<"VARIABLES.csv", "variables_csv">> >>
      [] e = "generate-gluevars" ->
            << <<"LOCATED_VARIABLES.h", "located_variables_h">> >>

\* Named-files mode: <<response key, file name>>, in the order they are read.
NamedOutputs(e) ==
    CASE e = "generate-st" -> << <<"program_st", "program.st">> >>
      [] e = "compile-st" -> << >>
      [] e = "generate-debug" ->
            << <<"program_st", "program.st">>, <<"debug_c", "debug.c">> >>
      [] e = "generate-gluevars" -> << <<"glue_vars_c", "glueVars.c">> >>

\* compile_st lists the directory; the other handlers probe fixed names.
Enumerates(e) == e = "compile-st"

\* -------------------------------------------------------- the external tool
\* The tools are opaque.  What a run may do to each file of its working
\* directory: leave it, write text, write bytes that do not decode, write a
\* file that cannot be opened, make a subdirectory, or remove it.
ToolOptions(e, n) ==
    CASE e = "generate-st" /\ n = "program.st" -> {"keep", "write", "garble"}
      [] e = "compile-st" /\ n = "POUS.c" -> {"keep", "write", "garble", "lock"}
      [] e = "compile-st" /\ n = "lib" -> {"keep", "mkdir"}
      [] e = "compile-st" /\ n = "program.st" -> {"keep", "write"}
      [] e = "generate-debug" /\ n = "program.st" -> {"keep", "write", "remove"}
      [] e = "generate-debug" /\ n = "debug.c" -> {"keep", "write", "garble"}
      [] e = "generate-gluevars" /\ n = "glueVars.c" -> {"keep", "write", "garble"}
      [] OTHER -> {"keep"}

Touched(e) == {n \in FileNames : ToolOptions(e, n) # {"keep"}}
ToolEffects(e) ==
    {o \in [Touched(e) -> {"keep", "write", "garble", "lock", "mkdir", "remove"}] :
        \A n \in Touched(e) : o[n] \in ToolOptions(e, n)}

ApplyOption(opt, old, r) ==
    CASE opt = "keep" -> old
      [] opt = "write" -> File(ToolText, TRUE, r)
      [] opt = "garble" -> File(ToolGarbled, TRUE, r)
      [] opt = "lock" -> File(ToolText, FALSE, r)
      [] opt = "mkdir" -> SubDir(r)
      [] opt = "remove" -> Absent

ApplyEffect(files, e, o, r) ==
    [n \in FileNames |->
        IF n \in Touched(e) THEN ApplyOption(o[n], files[n], r) ELSE files[n]]

\* A run of the tool: its exit status, the bytes it prints on its two
\* streams and what it does to the files.  A run that succeeds prints on
\* stdout only, one that fails also prints on stderr, and a run may print
\* bytes that do not decode (such a run is taken to write no file).
KeepAll(e) == [n \in Touched(e) |-> "keep"]
ToolRuns(e) ==
    {[code |-> c, out |-> ToolText,
      err |-> IF c = 0 THEN << >> ELSE ToolText, effect |-> o] :
        c \in ExitCodes, o \in ToolEffects(e)}
    \cup
    {[code |-> c, out |-> ToolGarbled, err |-> << >>, effect |-> KeepAll(e)] :
        c \in ExitCodes}

\* subprocess.CompletedProcess
NoProc == [returncode |-> -1, stdout |-> << >>, stderr |-> << >>]
Completed(run) ==
    [returncode |-> run.code, stdout |-> UniversalNewlines(run.out),
     stderr |-> UniversalNewlines(run.err)]

\* -------------------------------------------------------------- harvesting
None == [some |-> FALSE, val |-> << >>]
Some(t) == [some |-> TRUE, val |-> t]

\* os.path.exists
Exists(entry) == entry.kind # "none"
\* os.path.isfile
IsFile(entry) == entry.kind = "file"

\* open(path, "r") then f.read(): succeeds on a readable, decodable file.
CanReadStrict(entry) ==
    entry.kind = "file" /\ entry.readable /\ Decodable(entry.data)

\* if os.path.exists(p): with open(p, "r") as f: x = f.read()
ReadNamed(entry) ==
    IF Exists(entry) THEN Some(UniversalNewlines(entry.data)) ELSE None
NamedRaises(entry) == Exists(entry) /\ ~CanReadStrict(entry)

\* f"Error reading file: {str(e)}"
ErrorText == <<"Error reading file: ...">>

\* open(p, "r", encoding="utf-8", errors="replace") under try/except.
ReadLenient(entry) ==
    IF entry.readable
    THEN UniversalNewlines(DecodeReplace(entry.data))
    ELSE ErrorText

ListedFilesWithInput(files) == {n \in FileNames : IsFile(files[n])}
\* for filename in os.listdir(temp_dir):
\*     if os.path.isfile(file_path) and filename != "program.st":
ListedFiles(files) == {n \in FileNames : IsFile(files[n]) /\ n # "program.st"}

HarvestFiles(files) == [n \in ListedFiles(files) |-> ReadLenient(files[n])]

HarvestNamed(e, files) ==
    LET outs == NamedOutputs(e)
        keys == {outs[i][1] : i \in 1..Len(outs)}
        nameOf(k) == (CHOOSE i \in 1..Len(outs) : outs[i][1] = k)
    IN  [k \in keys |-> ReadNamed(files[outs[nameOf(k)][2]])]

NamedSources(e, files) ==
    {files[NamedOutputs(e)[i][2]].by :
        i \in {j \in 1..Len(NamedOutputs(e)) : Exists(files[NamedOutputs(e)[j][2]])}}

HarvestRaises(e, files) ==
    \E i \in 1..Len(NamedOutputs(e)) : NamedRaises(files[NamedOutputs(e)[i][2]])

\* "output_stderr": (result.stderr if result.stderr else "")
StderrField(p) == IF p.stderr # << >> THEN p.stderr ELSE << >>

\* response = {...}; return JSONResponse(content=response)
ToolResult(e, p, files) ==
    [status |-> 200, detail |-> "", exit_code |-> p.returncode,
     stdout |-> p.stdout, stderr |-> StderrField(p),
     named |-> IF Enumerates(e) THEN NoFiles ELSE HarvestNamed(e, files),
     files |-> IF Enumerates(e) THEN HarvestFiles(files) ELSE NoFiles,
     sources |-> IF Enumerates(e)
                 THEN {files[n].by : n \in ListedFiles(files)}
                 ELSE NamedSources(e, files)]

\* Lines 70-82, 130-146, 205-223, 274-286: the value returned, or the
\* exception raised, by the harvesting part of the handler.
Harvested(e, p, files) ==
    IF ~Enumerates(e) /\ HarvestRaises(e, files)
    THEN InternalError
    ELSE ToolResult(e, p, files)

\* ------------------------------------------------------------------- state
VARIABLES
    pc,         \* where each invocation's handler stands
    endpoint,   \* the route the request was posted to
    body,       \* the request body
    temp_dir,   \* the handler's temp_dir (0: not assigned)
    written,    \* how many of the handler's input files are written
    exited,     \* the status the tool's process exited with (-1: none did)
    proc,       \* the handler's result = subprocess.run(...)
    pending,    \* the value returned or exception raised inside try
    response,   \* the response the client received
    sent,       \* how many responses the client was sent
    events,     \* the file-system and process operations the handler made
    disk        \* the scratch root: directory name -> directory

vars ==
    <<pc, endpoint, body, temp_dir, written, exited, proc, pending, response,
      sent, events, disk>>

Init ==
    /\ pc = [r \in Requests |-> "idle"]
    /\ endpoint = [r \in Requests |-> "none"]
    /\ body = [r \in Requests |-> InvalidBody]
    /\ temp_dir = [r \in Requests |-> 0]
    /\ written = [r \in Requests |-> 0]
    /\ exited = [r \in Requests |-> -1]
    /\ proc = [r \in Requests |-> NoProc]
    /\ pending = [r \in Requests |-> NoResponse]
    /\ response = [r \in Requests |-> NoResponse]
    /\ sent = [r \in Requests |-> 0]
    /\ events = [r \in Requests |-> << >>]
    /\ disk = [d \in DirNames |-> NoDir]

Log(r, ev) == [events EXCEPT ![r] = Append(@, ev)]

\* A client posts a request to one of the four routes.
Receive(r) ==
    /\ pc[r] = "idle"
    /\ \E e \in Endpoints : \E b \in Bodies(e) :
         /\ endpoint' = [endpoint EXCEPT ![r] = e]
         /\ body' = [body EXCEPT ![r] = b]
    /\ pc' = [pc EXCEPT ![r] = "validate"]
    /\ UNCHANGED <<temp_dir, written, exited, proc, pending, response, sent,
                   events, disk>>

\* Lines 41-49, 101-109, 167-180, 244-253.
ParseAndValidate(r) ==
    /\ pc[r] = "validate"
    /\ LET v == Validate(endpoint[r], body[r])
       IN  IF v = Accepted
           THEN /\ pc' = [pc EXCEPT ![r] = "acquire"]
                /\ UNCHANGED <<response, sent>>
           ELSE /\ pc' = [pc EXCEPT ![r] = "done"]
                /\ response' = [response EXCEPT ![r] = v]
                /\ sent' = [sent EXCEPT ![r] = @ + 1]
    /\ UNCHANGED <<endpoint, body, temp_dir, written, exited, proc, pending, events, disk>>

AnyNames(dk) == DirNames
\* tempfile.mkdtemp makes the directory with an exclusive mkdir: the name it
\* returns named nothing before.
FreshNames(dk) == {d \in DirNames : ~dk[d].exists}

\* Lines 52, 112, 183, 256: temp_dir = tempfile.mkdtemp(prefix=...), before try.
Acquire(r) ==
    /\ pc[r] = "acquire"
    /\ \/ \E d \in FreshNames(disk) :
            /\ disk' = [disk EXCEPT ![d] = NewDir(r)]
            /\ temp_dir' = [temp_dir EXCEPT ![r] = d]
            /\ events' = Log(r, "mkdtemp")
            /\ pc' = [pc EXCEPT ![r] = "write"]
            /\ UNCHANGED <<response, sent>>
       \/ \* mkdtemp raises OSError: no directory, no finally block
          /\ response' = [response EXCEPT ![r] = InternalError]
          /\ sent' = [sent EXCEPT ![r] = @ + 1]
          /\ pc' = [pc EXCEPT ![r] = "done"]
          /\ UNCHANGED <<disk, temp_dir, events>>
    /\ UNCHANGED <<endpoint, body, written, exited, proc, pending>>

OnRaiseLeaves == "done"
\* try: ... finally: an exception raised inside try enters the finally block.
OnRaise == "release"

WriteErrorSwallowed(next) == next
\* Nothing catches the exception a failed write raises: the handler leaves
\* the try block, whatever statement would have come next.
AfterWriteRaises(next) == OnRaise

LaunchErrorIgnored == "harvest"
\* subprocess.run is not under an except clause: a launch that raises leaves
\* the try block.
AfterLaunchRaises == OnRaise

SpawnsEarly(count, all) == "spawn"
\* The writes come one after another, subprocess.run after the last of them.
AfterWrite(count, all) == IF count = all THEN "spawn" ELSE "write"

SkipsHarvest == "release"
\* The statement after subprocess.run(...) reads the outputs.
AfterRun == "harvest"

RetryOnFailure(code) == IF code # 0 THEN "spawn" ELSE AfterRun
\* subprocess.run is called without check=True and its returncode is only
\* copied into the response: every exit status continues the same way.
AfterExit(code) == AfterRun

\* Lines 58-59, 118-119, 190-194, 262-263: with open(path, "w") as f: f.write(text)
WriteInput(r) ==
    /\ pc[r] = "write"
    /\ LET inp == InputFiles(endpoint[r])[written[r] + 1]
           text == Get(body[r], inp[2]).val
           d == temp_dir[r]
           next == AfterWrite(written[r] + 1, Len(InputFiles(endpoint[r])))
           OnWriteError == AfterWriteRaises(next)
       IN  \/ \* open raises OSError: nothing is written
              /\ pending' = [pending EXCEPT ![r] = InternalError]
              /\ pc' = [pc EXCEPT ![r] = OnWriteError]
              /\ UNCHANGED <<disk, written>>
           \/ IF Encodable(text)
              THEN /\ disk' = [disk EXCEPT ![d].files[inp[1]] =
                                              File(TextWrite(text), TRUE, r)]
                   /\ written' = [written EXCEPT ![r] = @ + 1]
                   /\ pc' = [pc EXCEPT ![r] = next]
                   /\ UNCHANGED pending
              ELSE \* UnicodeEncodeError: the file was created and stays empty
                   /\ disk' = [disk EXCEPT ![d].files[inp[1]] = File(<< >>, TRUE, r)]
                   /\ pending' = [pending EXCEPT ![r] = InternalError]
                   /\ pc' = [pc EXCEPT ![r] = OnWriteError]
                   /\ UNCHANGED written
    /\ events' = Log(r, "write")
    /\ UNCHANGED <<endpoint, body, temp_dir, exited, proc, response, sent>>

\* Lines 62-68, 122-128, 197-203, 266-272: subprocess.run starts the process.
Spawn(r) ==
    /\ pc[r] = "spawn"
    /\ \/ /\ pc' = [pc EXCEPT ![r] = "running"]
          /\ events' = Log(r, "spawn")
          /\ UNCHANGED pending
       \/ \* Popen raises (the executable is missing): no process
          /\ pending' = [pending EXCEPT ![r] = InternalError]
          /\ events' = Log(r, "spawn failed")
          /\ pc' = [pc EXCEPT ![r] = AfterLaunchRaises]
    /\ UNCHANGED <<endpoint, body, temp_dir, written, exited, proc, response,
                   sent, disk>>

\* The tool runs with cwd=temp_dir and exits; subprocess.run decodes the
\* streams (text=True) and returns.
ToolExit(r) ==
    /\ pc[r] = "running"
    /\ \E run \in ToolRuns(endpoint[r]) :
         /\ exited' = [exited EXCEPT ![r] = run.code]
         /\ disk' = [disk EXCEPT ![temp_dir[r]].files =
                        ApplyEffect(@, endpoint[r], run.effect, r)]
         /\ IF Decodable(run.out) /\ Decodable(run.err)
            THEN /\ proc' = [proc EXCEPT ![r] = Completed(run)]
                 /\ pc' = [pc EXCEPT ![r] = AfterExit(run.code)]
                 /\ UNCHANGED pending
            ELSE \* UnicodeDecodeError out of subprocess.run
                 /\ pending' = [pending EXCEPT ![r] = InternalError]
                 /\ pc' = [pc EXCEPT ![r] = OnRaise]
                 /\ UNCHANGED proc
    /\ events' = Log(r, "exit")
    /\ UNCHANGED <<endpoint, body, temp_dir, written, response, sent>>

\* Lines 70-82, 130-146, 205-223, 274-286: read the outputs, build the response.
Harvest(r) ==
    /\ pc[r] = "harvest"
    /\ pending' = [pending EXCEPT ![r] =
                      Harvested(endpoint[r], proc[r], disk[temp_dir[r]].files)]
    /\ events' = Log(r, "harvest")
    /\ pc' = [pc EXCEPT ![r] = "release"]
    /\ UNCHANGED <<endpoint, body, temp_dir, written, exited, proc, response,
                   sent, disk>>

RmtreeRaises(pend, removed) == IF removed THEN pend ELSE InternalError
\* shutil.rmtree(temp_dir, ignore_errors=True) raises nothing: what leaves
\* the finally block is what entered it.
AfterRmtree(pend, removed) == pend

\* Lines 84-86, 148-150, 225-227, 288-290: finally: shutil.rmtree(...)
Release(r) ==
    /\ pc[r] = "release"
    /\ \E removed \in BOOLEAN :
         /\ disk' = IF removed THEN [disk EXCEPT ![temp_dir[r]] = NoDir] ELSE disk
         /\ response' = [response EXCEPT ![r] = AfterRmtree(pending[r], removed)]
         /\ events' = Log(r, IF removed THEN "rmtree" ELSE "rmtree failed")
    /\ sent' = [sent EXCEPT ![r] = @ + 1]
    /\ pc' = [pc EXCEPT ![r] = "done"]
    /\ UNCHANGED <<endpoint, body, temp_dir, written, exited, proc, pending>>

\* One invocation of a handler.
Handler(r) ==
    \/ Receive(r)
    \/ ParseAndValidate(r)
    \/ Acquire(r)
    \/ WriteInput(r)
    \/ Spawn(r)
    \/ ToolExit(r)
    \/ Harvest(r)
    \/ Release(r)

\* The server runs the invocations concurrently (one worker process each).
Next == \E r \in Requests : Handler(r)

Spec == Init /\ [][Next]_vars

\* One invocation alone: no other request arrives while it is served.
Solo == Handler(1)

SpecSolo == Init /\ [][Solo]_vars

\* The statements of a handler: once the request is received they run one
\* after another without waiting for anything but the tool.
HandlerStep(r) ==
    \/ ParseAndValidate(r)
    \/ Acquire(r)
    \/ WriteInput(r)
    \/ Spawn(r)
    \/ Harvest(r)
    \/ Release(r)

\* One invocation whose handler keeps running.  subprocess.run is called
\* without timeout=: nothing obliges the tool's process to exit, so ToolExit
\* is under no fairness condition.
SpecLive == Init /\ [][Solo]_vars /\ WF_vars(HandlerStep(1))

\* ------------------------------------------------------------ observations
Count(seq, x) == Cardinality({i \in 1..Len(seq) : seq[i] = x})
Happened(r, ev) == \E i \in 1..Len(events[r]) : events[r][i] = ev
\* Every b in the invocation's log has an a before it.
Before(r, a, b) ==
    \A j \in 1..Len(events[r]) : events[r][j] = b =>
        \E i \in 1..(j - 1) : events[r][i] = a
\* No b in the invocation's log has an a before it.
NeverBefore(r, a, b) ==
    \A j \in 1..Len(events[r]) : events[r][j] = b =>
        \A i \in 1..(j - 1) : events[r][i] # a

\* Workspace directories the invocation created.
Created(r) == Count(events[r], "mkdtemp")
\* Processes of the tool the invocation started.
Starts(r) == Count(events[r], "spawn")
\* Launches that raised.
FailedLaunches(r) == Count(events[r], "spawn failed")
\* Calls of subprocess.run the invocation made.
Runs(r) == Starts(r) + FailedLaunches(r)
\* Times the invocation's finally block ran shutil.rmtree.
Releases(r) == Count(events[r], "rmtree") + Count(events[r], "rmtree failed")
\* The invocation's workspace is on disk.
OnDisk(r) == \E d \in DirNames : disk[d].exists /\ disk[d].by = r

Done(r) == pc[r] = "done"
Started(r) == pc[r] # "idle"
ClientError(resp) == resp.status \in 400..499
IsToolResult(resp) == resp.status = 200

AllWhitespace(s) == \A i \in 1..Len(s) : s[i] \in {" ", "\n", "\r", "\t"}
Required(e) == Range(RequiredFields(e))

\* The request supplies every required field as a string, non-blank where
\* the endpoint asks for that.
ValidRequest(e, b) ==
    /\ b.type = "object"
    /\ \A f \in Required(e) :
          /\ b.fields[f].type = "string"
          /\ e # "generate-gluevars" => ~AllWhitespace(b.fields[f].val)
PassedValidation(r) == Started(r) /\ ValidRequest(endpoint[r], body[r])

\* ------------------------------------------------------------------ claims

\* C1 as stated: every request that passes validation creates exactly one
\* workspace directory, and once its response has been returned none of its
\* workspace directories remains on disk.
C1_AsStated ==
    \A r \in Requests :
        Done(r) /\ PassedValidation(r) => Created(r) = 1 /\ ~OnDisk(r)

\* C1, amended: a request that passes validation creates at most one
\* workspace directory, and exactly one unless mkdtemp itself raises (then it
\* ends as an internal error with nothing created); on every exit path and
\* for every exit code, once the response has been returned rmtree has run
\* exactly once on that directory, and the directory remains on disk only if
\* that rmtree failed.
C1_Workspace ==
    \A r \in Requests :
        /\ Created(r) <= 1
        /\ PassedValidation(r) /\ Done(r) =>
              /\ Created(r) = 0 => response[r].status = 500 /\ ~OnDisk(r)
              /\ Created(r) = 1 => Releases(r) = 1
              /\ OnDisk(r) => Happened(r, "rmtree failed")
              /\ Happened(r, "rmtree") => ~OnDisk(r)

\* C1 witness: the tool exited nonzero, the response went out, one workspace
\* was created and none is left.
C1_Witness ==
    \E r \in Requests :
        /\ Done(r) /\ PassedValidation(r) /\ exited[r] > 0
        /\ response[r].status = 200
        /\ Created(r) = 1 /\ ~OnDisk(r)

\* The requests C2 is about: the body is not JSON, or a required field is
\* missing, or a required string field is empty or whitespace-only (for
\* the endpoints that check that).
C2Case(r) ==
    /\ Started(r)
    /\ \/ body[r].type = "invalid"
       \/ /\ body[r].type = "object"
          /\ \E f \in Required(endpoint[r]) :
                \/ body[r].fields[f].type = "null"
                \/ /\ endpoint[r] # "generate-gluevars"
                   /\ body[r].fields[f].type = "string"
                   /\ AllWhitespace(body[r].fields[f].val)

\* C2: a request whose body is not JSON, or that lacks a required field, or
\* whose required string field is empty or whitespace-only, gets a client
\* error, and at no point of its execution is a workspace created or a
\* subprocess started.
C2_RejectedEarly ==
    \A r \in Requests :
        C2Case(r) =>
            /\ pc[r] \in {"validate", "done"}
            /\ Created(r) = 0 /\ Runs(r) = 0 /\ events[r] = << >>
            /\ temp_dir[r] = 0 /\ ~OnDisk(r)
            /\ Done(r) => ClientError(response[r])

\* C2 witness: a whitespace-only program_st was answered with a 422.
C2_Witness ==
    \E r \in Requests :
        /\ Done(r) /\ endpoint[r] = "compile-st"
        /\ body[r].fields["program_st"] = JString(BlankText)
        /\ response[r].status = 422

\* C3: the outputs are read strictly after the tool's process has returned
\* and strictly before the workspace is released, whatever the exit code, and
\* never from a workspace that has been removed.
C3_HarvestOrder ==
    \A r \in Requests :
        /\ Before(r, "exit", "harvest")
        /\ NeverBefore(r, "rmtree", "harvest")
        /\ NeverBefore(r, "rmtree failed", "harvest")
        /\ pc[r] = "harvest" =>
              /\ exited[r] >= 0 /\ Releases(r) = 0
              /\ disk[temp_dir[r]].exists /\ disk[temp_dir[r]].by = r
        /\ proc[r] # NoProc /\ pc[r] \in {"release", "done"} =>
              Count(events[r], "harvest") = 1
        /\ Done(r) /\ Happened(r, "harvest") =>
              /\ Releases(r) = 1
              /\ events[r][Len(events[r])] \in {"rmtree", "rmtree failed"}

\* C3 witness: a run with a nonzero exit code was harvested, then released.
C3_Witness ==
    \E r \in Requests :
        /\ Done(r) /\ exited[r] > 0
        /\ Happened(r, "harvest") /\ Happened(r, "rmtree")

\* C4 as stated: when the tool exits with a nonzero code the request is not
\* failed; the response is a tool result whose exit_code is the tool's exit
\* status, with the captured stdout and stderr.
C4_AsStated ==
    \A r \in Requests :
        Done(r) /\ exited[r] > 0 =>
            /\ IsToolResult(response[r])
            /\ response[r].exit_code = exited[r]
            /\ response[r].stdout = proc[r].stdout
            /\ response[r].stderr = proc[r].stderr


\* Holding a workspace: between mkdtemp and the end of rmtree.
Holds(r) == pc[r] \in {"write", "spawn", "running", "harvest", "release"}

\* C5: two invocations that overlap in time, even with the same endpoint and
\* body, have distinct workspaces; the workspace an invocation holds exists,
\* is the one it created and contains only entries its own handler or tool
\* wrote (so no other invocation wrote into it or removed it); and what an
\* invocation returns was read from its own files only.
C5_Isolation ==
    \A r \in Requests :
        /\ \A q \in Requests \ {r} :
              Holds(r) /\ Holds(q) => temp_dir[r] # temp_dir[q]
        /\ Holds(r) =>
              /\ disk[temp_dir[r]].exists /\ disk[temp_dir[r]].by = r
              /\ \A n \in FileNames : disk[temp_dir[r]].files[n].by \in {0, r}
        /\ pending[r].sources \subseteq {r}
        /\ response[r].sources \subseteq {r}
        /\ \A d \in DirNames : \A n \in FileNames :
              disk[d].exists => disk[d].files[n].by \in {0, disk[d].by}

\* C5 witness: two compile-st invocations with identical bodies have both
\* run their tool and hold two workspaces, each with its own program.st.
C5_Witness ==
    \E r, q \in Requests :
        /\ r # q
        /\ endpoint[r] = "compile-st" /\ endpoint[q] = "compile-st"
        /\ body[r] = body[q]
        /\ pc[r] = "harvest" /\ pc[q] = "harvest"
        /\ temp_dir[r] # temp_dir[q]
        /\ disk[temp_dir[r]].files["program.st"].by = r
        /\ disk[temp_dir[q]].files["program.st"].by = q

\* A write of an input file raised: the handler left the write phase with
\* fewer files written than the endpoint has inputs.
WriteFailed(r) ==
    /\ pc[r] \notin {"idle", "validate", "acquire", "write"}
    /\ Created(r) = 1
    /\ written[r] < Len(InputFiles(endpoint[r]))

\* C6: when writing an input file fails, the tool is never invoked, the
\* request ends as an internal error and not as a tool result, and the
\* workspace is still released.
C6_WriteFailure ==
    \A r \in Requests :
        WriteFailed(r) =>
            /\ Runs(r) = 0 /\ exited[r] = -1
            /\ pc[r] \in {"release", "done"}
            /\ Done(r) => /\ response[r].status = 500
                          /\ ~IsToolResult(response[r])
                          /\ Releases(r) = 1

\* C6 witness: generate-debug wrote program.st, failed on VARIABLES.csv and
\* answered 500 after removing the workspace.
C6_Witness ==
    \E r \in Requests :
        /\ Done(r) /\ endpoint[r] = "generate-debug"
        /\ written[r] = 1 /\ WriteFailed(r)
        /\ response[r].status = 500 /\ Happened(r, "rmtree")

\* An expected output of the handler exists but cannot be read as text.
UnreadableOutput(r) ==
    LET files == disk[temp_dir[r]].files
        bad(n) == /\ files[n].kind = "file"
                  /\ ~files[n].readable \/ ~Decodable(files[n].data)
    IN  IF Enumerates(endpoint[r])
        THEN \E n \in FileNames \ {"program.st"} : bad(n)
        ELSE \E i \in 1..Len(NamedOutputs(endpoint[r])) :
                bad(NamedOutputs(endpoint[r])[i][2])

\* C7 as stated: when an expected output file exists after the tool ran but
\* cannot be read or decoded, the harvest still yields a successful response
\* (named-files mode and enumerate mode alike).
C7_AsStated ==
    \A r \in Requests :
        pc[r] = "release" /\ Happened(r, "harvest") /\ UnreadableOutput(r) =>
            IsToolResult(pending[r])

\* C8: a failing rmtree raises nothing: the response the client receives is
\* the one that was pending when the finally block was entered, tool result
\* or error alike.
C8_CleanupSuppressed ==
    \A r \in Requests :
        Done(r) /\ Releases(r) > 0 =>
            /\ response[r] = pending[r]
            /\ Happened(r, "harvest") /\ Happened(r, "rmtree failed") =>
                  response[r] =
                      Harvested(endpoint[r], proc[r], disk[temp_dir[r]].files)

\* C8 witness: rmtree failed, the workspace is still on disk and the client
\* received the tool result.
C8_Witness ==
    \E r \in Requests :
        /\ Done(r) /\ Happened(r, "rmtree failed") /\ OnDisk(r)
        /\ IsToolResult(response[r])

\* C9 as stated: a body that is not JSON, or not a JSON object, or that does
\* not supply a required field as a string, is answered with a client error.
C9_AsStated ==
    \A r \in Requests :
        /\ Done(r)
        /\ \/ body[r].type # "object"
           \/ \E f \in Required(endpoint[r]) : body[r].fields[f].type # "string"
        => ClientError(response[r])

\* C10: the files map compile-st returns has exactly the regular files of the
\* workspace root after the tool ran, program.st excepted: never program.st,
\* never a subdirectory, every other regular file.
C10_EnumeratedFiles ==
    \A r \in Requests :
        pc[r] = "release" /\ endpoint[r] = "compile-st" /\ Happened(r, "harvest") =>
            LET files == disk[temp_dir[r]].files
            IN  /\ IsToolResult(pending[r])
                /\ "program.st" \notin DOMAIN pending[r].files
                /\ \A n \in FileNames :
                      files[n].kind = "dir" => n \notin DOMAIN pending[r].files
                /\ \A n \in FileNames \ {"program.st"} :
                      files[n].kind = "file" => n \in DOMAIN pending[r].files
                /\ \A n \in DOMAIN pending[r].files : files[n].kind = "file"

\* C10 witness: the tool rewrote program.st, made a subdirectory and wrote
\* POUS.c; the map has POUS.c alone.
C10_Witness ==
    \E r \in Requests :
        /\ pc[r] = "release" /\ endpoint[r] = "compile-st"
        /\ disk[temp_dir[r]].files["program.st"].data = ToolText
        /\ disk[temp_dir[r]].files["lib"].kind = "dir"
        /\ IsToolResult(pending[r])
        /\ DOMAIN pending[r].files = {"POUS.c"}

\* The output fields C11 names: program_st of generate-st, debug_c of
\* generate-debug, glue_vars_c of generate-gluevars, each with its file.
C11Outputs(e) ==
    {NamedOutputs(e)[i] : i \in {j \in 1..Len(NamedOutputs(e)) :
        e = "generate-debug" => NamedOutputs(e)[j][1] = "debug_c"}}

\* C11 as stated: in named-files mode, once the outputs are harvested the
\* response is a tool result whose output field is null exactly when the
\* expected file does not exist in the workspace, and otherwise holds the
\* full content of that file, whatever the exit code.
C11_AsStated ==
    \A r \in Requests :
        pc[r] = "release" /\ Happened(r, "harvest") /\ ~Enumerates(endpoint[r]) =>
            \A o \in C11Outputs(endpoint[r]) :
                LET entry == disk[temp_dir[r]].files[o[2]]
                IN  /\ IsToolResult(pending[r])
                    /\ pending[r].named[o[1]] = None <=> ~Exists(entry)
                    /\ Exists(entry) => pending[r].named[o[1]] = Some(entry.data)

\* The generate-gluevars request supplies located_variables_h as a string.
C12Valid(r) ==
    /\ endpoint[r] = "generate-gluevars"
    /\ body[r].type = "object"
    /\ body[r].fields["located_variables_h"].type = "string"

\* C12 as stated: a generate-gluevars request whose located_variables_h is
\* any string, empty and blank included, gets a workspace, has
\* LOCATED_VARIABLES.h written, has the tool started and is answered with a
\* tool result; a client error is returned only when the field is missing or
\* is not a string.
C12_AsStated ==
    \A r \in Requests :
        Done(r) /\ endpoint[r] = "generate-gluevars" =>
            /\ C12Valid(r) =>
                  /\ Created(r) = 1 /\ written[r] = 1 /\ Starts(r) = 1
                  /\ IsToolResult(response[r])
            /\ ClientError(response[r]) => ~C12Valid(r)

\* C13 as stated: the program_st field of a generate-debug tool result is
\* the content of program.st as the tool left it: null exactly when the file
\* is gone, the file's content when it is there, hence the request's
\* program_st when the file still holds what the handler wrote.
C13_AsStated ==
    \A r \in Requests :
        /\ pc[r] = "release" /\ endpoint[r] = "generate-debug"
        /\ Happened(r, "harvest") /\ IsToolResult(pending[r])
        => LET entry == disk[temp_dir[r]].files["program.st"]
               sent_st == Get(body[r], "program_st").val
               field == pending[r].named["program_st"]
           IN  /\ field = None <=> ~Exists(entry)
               /\ Exists(entry) => field = Some(entry.data)
               /\ Exists(entry) /\ entry.data = TextWrite(sent_st) =>
                     field = Some(sent_st)

\* The lifecycle states, in order.
LifecycleStates ==
    <<"CREATED", "INPUTS_WRITTEN", "TOOL_RUNNING", "TOOL_DONE",
      "OUTPUTS_HARVESTED", "RELEASED">>
Released == Len(LifecycleStates)

\* The position in LifecycleStates of the state an invocation has reached
\* (0: no workspace yet).
Lifecycle(r) ==
    IF Releases(r) > 0 THEN Released
    ELSE IF Happened(r, "harvest") /\ IsToolResult(pending[r]) THEN 5
    ELSE IF Happened(r, "exit") THEN 4
    ELSE IF Starts(r) > 0 THEN 3
    ELSE IF Created(r) > 0 /\ written[r] = Len(InputFiles(endpoint[r])) THEN 2
    ELSE IF Created(r) > 0 THEN 1
    ELSE 0

\* The invocation has failed: an exception is on its way out of try.
Failing(r) == pending[r] = InternalError

\* One step of the lifecycle: stay, advance by one state, or, from a state
\* in which the invocation failed, go to RELEASED.
LifecycleStep(r) ==
    \/ Lifecycle(r)' = Lifecycle(r)
    \/ Lifecycle(r)' = Lifecycle(r) + 1
    \/ Lifecycle(r) \in 1..4 /\ Failing(r) /\ Lifecycle(r)' = Released

\* RELEASED is the only state an invocation with a workspace ends in, and
\* nothing follows it.
ReleasedIsTerminal(r) ==
    /\ Done(r) /\ Created(r) > 0 => Lifecycle(r) = Released
    /\ Lifecycle(r) = Released => Done(r) /\ Releases(r) = 1
                                  /\ events[r][Len(events[r])] \in {"rmtree", "rmtree failed"}

C14Safety ==
    /\ [](\A r \in Requests : ReleasedIsTerminal(r))
    /\ [][\A r \in Requests : LifecycleStep(r)]_vars

\* C14 as stated: an invocation that has created a workspace goes through
\* CREATED, INPUTS_WRITTEN, TOOL_RUNNING, TOOL_DONE, OUTPUTS_HARVESTED,
\* RELEASED, no state skipped or reordered except that a failure leads
\* directly to RELEASED, its only terminal state, and it always reaches
\* RELEASED in the end.
C14_AsStated ==
    /\ C14Safety
    /\ \A r \in Requests : (Created(r) > 0) ~> (Lifecycle(r) = Released)

\* C14, amended: the same order of states, and RELEASED is reached in the end
\* by every invocation whose tool does not run for ever (no timeout is
\* enforced: an invocation whose tool never exits stays in TOOL_RUNNING).
C14_Lifecycle ==
    /\ C14Safety
    /\ \A r \in Requests :
          <>[](pc[r] # "running") =>
              ((Created(r) > 0) ~> (Lifecycle(r) = Released))

\* C14 witness: generate-debug went through all six states: both inputs
\* written, the tool started and exited, the outputs harvested, the
\* workspace removed.
C14_Witness ==
    \E r \in Requests :
        /\ Done(r) /\ endpoint[r] = "generate-debug"
        /\ events[r] = <<"mkdtemp", "write", "write", "spawn", "exit",
                         "harvest", "rmtree">>
        /\ IsToolResult(response[r]) /\ Lifecycle(r) = Released

\* Validation passed and every input file of the endpoint was written.
InputsWritten(r) ==
    PassedValidation(r) /\ written[r] = Len(InputFiles(endpoint[r]))

\* C15 as stated: in every request the tool is started at most once, exactly
\* once when validation passed and all inputs were written and not at all
\* otherwise, and the request is answered exactly once.
C15_AsStated ==
    \A r \in Requests :
        /\ Starts(r) <= 1 /\ sent[r] <= 1
        /\ Done(r) => /\ sent[r] = 1
                      /\ Starts(r) = 1 <=> InputsWritten(r)

\* C15, amended: no retries.  subprocess.run is called at most once, exactly
\* once when validation passed and all inputs were written and not at all
\* otherwise; the tool is started by that call unless the launch raises, and
\* is never started again whatever its exit code; the request is answered at
\* most once, and exactly once when its handler has returned.
C15_NoRetries ==
    \A r \in Requests :
        /\ Runs(r) <= 1 /\ Starts(r) <= 1 /\ sent[r] <= 1
        /\ sent[r] = 1 <=> Done(r)
        /\ Done(r) => /\ Runs(r) = 1 <=> InputsWritten(r)
                      /\ Starts(r) = 1 <=> Runs(r) = 1 /\ FailedLaunches(r) = 0
        /\ exited[r] >= 0 => Starts(r) = 1

\* C15 witness: the tool exited with a non-zero status, was not started
\* again, and the request was answered once with that status.
C15_Witness ==
    \E r \in Requests :
        /\ Done(r) /\ exited[r] = 1 /\ Starts(r) = 1 /\ sent[r] = 1
        /\ IsToolResult(response[r]) /\ response[r].exit_code = 1

\* The launch of the tool raised.
LaunchFailed(r) == FailedLaunches(r) > 0

\* C16: when the launch of the tool itself raises, no process runs, nothing
\* is harvested, no tool result with an exit code is built, the request
\* ends as an internal error and the finally block still runs rmtree on the
\* workspace.
C16_LaunchFailure ==
    \A r \in Requests :
        LaunchFailed(r) =>
            /\ Starts(r) = 0 /\ exited[r] = -1 /\ proc[r] = NoProc
            /\ ~Happened(r, "harvest")
            /\ pc[r] \in {"release", "done"}
            /\ pending[r] = InternalError
            /\ Done(r) => /\ response[r].status = 500
                          /\ ~IsToolResult(response[r])
                          /\ response[r].exit_code = -1
                          /\ Releases(r) = 1

\* C16 witness: compile-st wrote program.st, the launch of iec2c raised, the
\* workspace was removed and the client received a 500.
C16_Witness ==
    \E r \in Requests :
        /\ Done(r) /\ endpoint[r] = "compile-st" /\ LaunchFailed(r)
        /\ written[r] = 1 /\ Happened(r, "rmtree") /\ ~OnDisk(r)
        /\ response[r].status = 500

====
